---- MODULE Spec2Model ----
(***************************************************************************)
(* Client-side job lifecycle orchestrator of frontend/static/js/app.js:    *)
(* form submission, the status and log pollers (setInterval timers whose   *)
(* callbacks are async functions suspended at their fetches), the results  *)
(* loader and the history refresh.  One action per handler, timer callback *)
(* or continuation after an await.                                         *)
(***************************************************************************)
EXTENDS Integers, Sequences, FiniteSets, TLC

\* ---------------------------------------------------------------- bounds
MaxSubmits == 2     \* submissions that reach the POST
MaxJobs == 1        \* jobs the service creates under Spec (SpecJobs: MaxSubmits)
MaxInFlight == 2    \* fetches in flight before a timer or a click adds one
MaxStreak == 2      \* where the count of consecutive failed ticks saturates

\* ------------------------------------------------------------- constants
NULL == 0           \* null: no job, no timer handle (setInterval ids are > 0)

SP == " "
TAB == "\t"
Whitespace == {SP, TAB}

\* What the user may have typed in the URL field when the form is submitted.
UrlInputs == { <<>>, <<SP, TAB>>, <<SP, "a", SP>> }

ProgressVals == {0, 60}
Messages == {"", "Scraping"}

ValidationMsg == "Please enter a valid URL"
SubmittingMsg == "Submitting analysis request..."
SubmitFailedMsg == "Failed to submit analysis"
AnalysisFailedMsg == "Analysis failed. Please try again."
ResultsFailedMsg == "Failed to get results"
NetworkMsg == "Failed to fetch"
JsonMsg == "Unexpected token < in JSON"
RenderMsg == "Cannot read properties of undefined"

Terminal == {"completed", "failed"}

VARIABLES
    currentJobId,        \* app.js:5
    statusPollInterval,  \* app.js:6, a timer id or NULL
    logsPollInterval,    \* app.js:7, a timer id or NULL
    timers,              \* the browser's scheduled intervals: [id, kind, job]
    nextTimer,           \* the id the next setInterval returns
    tasks,               \* async functions suspended at a fetch, in issue order
    urlInput,            \* urlInput.value
    submitBtnDisabled,   \* submitBtn.disabled
    statusSection,       \* statusSection.style.display
    resultsSection,      \* resultsSection.style.display
    errorSection,        \* errorSection.style.display
    errorMessage,        \* #error-message textContent
    logsSection,         \* #logs-section style.display
    progressFill,        \* progressFill.style.width in percent
    loadingAnimation,    \* progressFill has class loading-animation
    statusMessage,       \* statusMessage.textContent
    statusDetails,       \* statusDetails.textContent
    resultsView,         \* the job whose result displayResults last wrote from
    resultsParts,        \* per element of the report: the job it was written from
    logsContainer,       \* #logs-container: class and text of each rendered line
    historyTbody,        \* #history-tbody rows
    jobStatus,           \* the service: status of each job it created
    nextJob,             \* the service: the job_id the next POST is given
    submits,             \* submissions that reached the POST
    polled,              \* per job: terminal statuses its status poller observed
    loads,               \* per job: results fetches issued by its status poller
    settled,             \* per job: how loadResults ended for the poller
    failStreak,          \* consecutive failed status ticks (saturating)
    logTickFailed        \* the last answered log tick of the poller failed

ctlVars == <<currentJobId, statusPollInterval, logsPollInterval, timers, nextTimer>>
formVars == <<urlInput, submitBtnDisabled>>
sectionVars == <<statusSection, resultsSection, errorSection, errorMessage, logsSection>>
statusVars == <<progressFill, loadingAnimation, statusMessage, statusDetails>>
viewVars == <<resultsView, resultsParts, logsContainer, historyTbody>>
serverVars == <<jobStatus, nextJob>>
ghostVars == <<submits, polled, loads, settled, failStreak, logTickFailed>>

vars == <<ctlVars, tasks, formVars, sectionVars, statusVars, viewVars,
          serverVars, ghostVars>>

Jobs == 1..MaxSubmits

\* ------------------------------------------------------- pure functions

IsWs(c) == c \in Whitespace

RECURSIVE TrimStart(_)
TrimStart(s) ==
    IF s = <<>> THEN s
    ELSE IF IsWs(Head(s)) THEN TrimStart(Tail(s)) ELSE s

RECURSIVE TrimEnd(_)
TrimEnd(s) ==
    IF s = <<>> THEN s
    ELSE IF IsWs(s[Len(s)]) THEN TrimEnd(SubSeq(s, 1, Len(s) - 1)) ELSE s

\* A plausible slip: the field's value is used as typed.
TrimNone(s) == s

\* String.prototype.trim
Trim(s) == TrimEnd(TrimStart(s))

\* The text of statusDetails: progress > 0 ? `Progress: ${progress}%` : 'Processing...'
DetailsText(progress) ==
    IF progress > 0 THEN <<"Progress: ", progress, "%">> ELSE <<"Processing...">>

\* status.message || `Status: ${status.status}`
MessageText(st, message) ==
    IF message # "" THEN message ELSE "Status: " \o st

\* clearInterval(h): unschedules the timer with that id; a no-op for null
\* and for an id that is not scheduled.
ClearInterval(ts, h) == {t \in ts : t.id # h}

Remove(s, i) == SubSeq(s, 1, i - 1) \o SubSeq(s, i + 1, Len(s))

\* A fetch in flight.  late: a fetch of the same job and kind that was issued
\* after this one has already been answered and applied.
Task(kind, job, origin, url) ==
    [kind |-> kind, job |-> job, origin |-> origin, url |-> url, late |-> FALSE]

\* The answer of the status fetch ts[i] is applied (line 109): the status
\* fetches of the same job issued before it and still in flight are late.
Overtake(ts, i) ==
    [k \in 1..Len(ts) |->
        IF k < i /\ ts[k].kind = "status" /\ ts[k].job = ts[i].job
        THEN [ts[k] EXCEPT !.late = TRUE]
        ELSE ts[k]]


Min(a, b) == IF a < b THEN a ELSE b

\* A plausible slip: the button is offered once the job has ended.
DisplayHistoryViewEnded(items) ==
    IF Len(items) = 0
    THEN << [job_id |-> NULL, status |-> "No analysis history", view |-> FALSE] >>
    ELSE [i \in 1..Len(items) |->
            [job_id |-> items[i].job_id, status |-> items[i].status,
             view |-> (items[i].status \in {"completed", "failed"})]]

\* displayHistory: one row per item, the placeholder row for an empty list.
DisplayHistory(items) ==
    IF Len(items) = 0
    THEN << [job_id |-> NULL, status |-> "No analysis history", view |-> FALSE] >>
    ELSE [i \in 1..Len(items) |->
            [job_id |-> items[i].job_id, status |-> items[i].status,
             view |-> (items[i].status = "completed")]]

\* A plausible slip: the error markers are tested before the component tags.
LogClassErrorFirst(line) ==
    IF line \cap {"x-mark", "ERROR", "Error"} # {} THEN "error"
    ELSE IF "[WORKER]" \in line THEN "worker"
    ELSE IF "[SCRAPER]" \in line THEN "scraper"
    ELSE IF "[EXTRACTOR]" \in line THEN "extractor"
    ELSE IF line \cap {"check-mark", "completed"} # {} THEN "success"
    ELSE "plain"

\* displayLogs: the class of one log line, given the markers it contains
\* (lines 469-474; "x-mark" and "check-mark" are the two symbols).
LogClass(line) ==
    IF "[WORKER]" \in line THEN "worker"
    ELSE IF "[SCRAPER]" \in line THEN "scraper"
    ELSE IF "[EXTRACTOR]" \in line THEN "extractor"
    ELSE IF line \cap {"x-mark", "ERROR", "Error"} # {} THEN "error"
    ELSE IF line \cap {"check-mark", "completed"} # {} THEN "success"
    ELSE "plain"

\* displayLogs, lines 468-477: one <div> per line, in order.
DisplayLogs(logs) ==
    [i \in 1..Len(logs) |-> [class |-> LogClass(logs[i]), text |-> logs[i]]]

\* The substrings displayLogs looks for.
Markers ==
    {"[WORKER]", "[SCRAPER]", "[EXTRACTOR]", "x-mark", "ERROR", "Error",
     "check-mark", "completed"}

\* Every log line, told apart by the markers it contains.
LogLines == SUBSET Markers

\* The log payloads the service answers with (a line is the set of markers
\* it contains); data.logs || [] makes an absent list the empty list.
LogInputs == { <<>>, << {"[WORKER]", "ERROR"}, {"completed"} >> }

\* GET /history: the service lists the jobs it created, newest first.
HistoryItems ==
    [i \in 1..(nextJob - 1) |->
        [job_id |-> nextJob - i, status |-> jobStatus[nextJob - i]]]

\* GET /status/{job_id}: the job's status, or a stale "processing" (the
\* answer may have been computed, or cached, before the job finished).
StatusAnswers(j) == {"processing", jobStatus[j]}

\* ------------------------------------------------- decisions of the code

\* A plausible slip: the check of response.ok is left out.
SubmitOkUnchecked(out) == out \in {"ok", "non2xx"}

\* response.ok of the POST followed by a body that parses (lines 60-64)
SubmitOk(out) == out = "ok"

\* A plausible slip: the previous interval is not cleared.
StartStatusPollingKeep(ts, h, id, jobId) ==
    ts \cup {[id |-> id, kind |-> "status", job |-> jobId]}

\* startStatusPolling, lines 88-93: the previous interval is cleared, a new
\* one is scheduled for jobId.
StartStatusPolling(ts, h, id, jobId) ==
    ClearInterval(ts, h) \cup {[id |-> id, kind |-> "status", job |-> jobId]}

\* A plausible slip: the previous log interval is not cleared.
StartLogsPollingKeep(ts, h, id, jobId) ==
    ts \cup {[id |-> id, kind |-> "logs", job |-> jobId]}

\* startLogsPolling, lines 420-431
StartLogsPolling(ts, h, id, jobId) ==
    ClearInterval(ts, h) \cup {[id |-> id, kind |-> "logs", job |-> jobId]}

\* status.status === 'completed' || status.status === 'failed' (line 111)
IsTerminal(st) == st \in Terminal

\* A plausible slip: the log interval is left to stop by itself.
StopPollingStatusOnly(ts, sh, lh) == ClearInterval(ts, sh)

\* lines 112-119: the status interval and the log interval are both cleared.
StopPolling(ts, sh, lh) == ClearInterval(ClearInterval(ts, sh), lh)

\* A plausible slip: the results are loaded at any terminal status.
LoadsResultsAtAnyEnd(st) == st \in Terminal

\* status.status === 'completed' (line 121): the results are loaded.
LoadsResults(st) == st = "completed"

\* A plausible slip: the poller gives up at the first failed tick.
TimersAfterTickErrorStop(ts, h) == ClearInterval(ts, h)

\* catch of the status tick, lines 127-135: nothing is cleared.
TimersAfterTickError(ts, h) == ts

\* A plausible slip: only a failed fetch is ignored, any answer is shown.
LogsOkAnyAnswer(out) == out # "neterr"

\* The log tick reaches displayLogs (lines 433-444): the fetch succeeded,
\* response.ok holds, the content type is JSON and the body parses.
LogsOk(out) == out = "ok"

\* A plausible slip: the check of response.ok is left out of loadHistory.
HistoryOkUnchecked(out) == out \in {"ok", "non2xx"}

\* loadHistory reaches displayHistory (lines 295-301): the fetch succeeded,
\* response.ok holds and the body parses.
HistoryOk(out) == out = "ok"

\* A plausible slip: viewing a result stops the pollers of the running job.
TimersAfterViewStop(ts, sh, lh) == ClearInterval(ClearInterval(ts, sh), lh)

\* viewResults, lines 382-387: no interval is set or cleared.
TimersAfterView(ts, sh, lh) == ts

\* if (data.error), line 166: the field is there and is not the empty string.
ErrorFields ==
    { [present |-> FALSE, text |-> ""],
      [present |-> TRUE, text |-> ""],
      [present |-> TRUE, text |-> "Job crashed"] }

\* A plausible slip: the field is tested for presence, not for truthiness.
HasErrorField(e) == e.present

HasError(e) == e.present /\ e.text # ""

\* data.result: absent, a full report, or a report that lacks its summary,
\* its flags, its naics_codes or its address.
ResultFields == {"absent", "report", "noSummary", "noFlags", "noNaics", "noAddress"}

\* if (data.result), line 171
HasResult(r) == r # "absent"

\* The elements displayResults writes, in the order it writes them.
ViewElements ==
    {"business-summary", "flags-display", "naics-display", "address-display",
     "company-registration-display"}

\* displayResults reads result.summary, result.flags, result.naics_codes and
\* result.address without a guard (lines 187, 197, 204, 216): it throws at
\* the first that is missing.
RenderThrows(r) == r \in {"noSummary", "noFlags", "noNaics", "noAddress"}

\* The property whose read throws.
ThrownAt(r) ==
    CASE r = "noSummary" -> "nature"
      [] r = "noFlags" -> "sanctions"
      [] r = "noNaics" -> "primary_code"
      [] OTHER -> "address"

\* error.message of the TypeError displayResults throws.
RenderErrorText(r) == RenderMsg \o " (reading '" \o ThrownAt(r) \o "')"

\* The elements displayResults has written when it returns or throws: an
\* element's HTML is assigned once its template has been evaluated.
Written(r) ==
    CASE r = "report" -> ViewElements
      [] r = "noAddress" -> {"business-summary", "flags-display", "naics-display"}
      [] r = "noNaics" -> {"business-summary", "flags-display"}
      [] r = "noFlags" -> {"business-summary"}
      [] OTHER -> {}

\* displayResults(result) for the result of job j, lines 183-291.
DisplayResults(parts, r, j) ==
    [e \in ViewElements |-> IF e \in Written(r) THEN j ELSE parts[e]]

Payloads == [error : ErrorFields, result : ResultFields]

\* The payloads that tell the branches of loadResults apart.
BranchPayloads == [error : ErrorFields, result : {"absent", "report", "noSummary"}]

NoData == [error |-> [present |-> FALSE, text |-> ""], result |-> "absent"]

\* ------------------------------------------------------------------ Init

\* The page after DOMContentLoaded (lines 22-26): the first loadHistory is
\* in flight, nothing is polled, every section is hidden.
Init ==
    /\ currentJobId = NULL
    /\ statusPollInterval = NULL
    /\ logsPollInterval = NULL
    /\ timers = {}
    /\ nextTimer = 1
    /\ tasks = << Task("history", NULL, "na", <<>>) >>
    /\ urlInput = <<>>
    /\ submitBtnDisabled = FALSE
    /\ statusSection = "none"
    /\ resultsSection = "none"
    /\ errorSection = "none"
    /\ errorMessage = ""
    /\ logsSection = "none"
    /\ progressFill = 0
    /\ loadingAnimation = FALSE
    /\ statusMessage = ""
    /\ statusDetails = <<>>
    /\ resultsView = NULL
    /\ resultsParts = [e \in ViewElements |-> NULL]
    /\ logsContainer = <<>>
    /\ historyTbody = <<>>
    /\ jobStatus = [j \in Jobs |-> "none"]
    /\ nextJob = 1
    /\ submits = 0
    /\ polled = [j \in Jobs |-> {}]
    /\ loads = [j \in Jobs |-> 0]
    /\ settled = [j \in Jobs |-> "none"]
    /\ failStreak = 0
    /\ logTickFailed = FALSE

\* --------------------------------------------------------------- helpers

\* updateStatusDisplay, lines 140-154
UpdateStatusDisplay(st, progress, message) ==
    /\ progressFill' = (IF progress < 5 THEN 100 ELSE progress)
    /\ loadingAnimation' = (progress < 5)
    /\ statusMessage' = MessageText(st, message)
    /\ statusDetails' = DetailsText(progress)

\* showError, lines 410-413
ShowError(message) ==
    /\ errorSection' = "block"
    /\ errorMessage' = message

\* error.message of what the submission throws (lines 52-64)
SubmitErrorText(out) ==
    CASE out = "neterr" -> NetworkMsg
      [] out = "non2xx" -> SubmitFailedMsg
      [] OTHER -> JsonMsg

\* error.message of what loadResults throws before it has a payload
LoadErrorText(out) ==
    CASE out = "neterr" -> NetworkMsg
      [] out = "non2xx" -> ResultsFailedMsg
      [] OTHER -> JsonMsg

\* --------------------------------------------------------------- actions

\* handleFormSubmit up to its first await (lines 29-58).  The form cannot be
\* submitted while its submit button is disabled.
HandleFormSubmit(v) ==
    /\ ~submitBtnDisabled
    /\ urlInput' = v
    /\ IF Trim(v) = <<>>
       THEN /\ ShowError(ValidationMsg)
            /\ UNCHANGED <<ctlVars, tasks, submitBtnDisabled, statusSection,
                           resultsSection, logsSection, statusVars, viewVars,
                           serverVars, ghostVars>>
       ELSE /\ submits' = submits + 1
            /\ submitBtnDisabled' = TRUE
            /\ errorSection' = "none"
            /\ resultsSection' = "none"
            /\ statusSection' = "block"
            /\ UpdateStatusDisplay("processing", 0, SubmittingMsg)
            /\ tasks' = Append(tasks, Task("post", NULL, "na", Trim(v)))
            /\ UNCHANGED <<ctlVars, errorMessage, logsSection, viewVars,
                           serverVars, polled, loads, settled, failStreak,
                           logTickFailed>>

\* handleFormSubmit after the POST is answered (lines 60-84); on success the
\* service has created the job it names.
PostResponse(i, out) ==
    /\ i \in 1..Len(tasks)
    /\ tasks[i].kind = "post"
    /\ IF SubmitOk(out)
       THEN /\ currentJobId' = nextJob
            /\ timers' = StartLogsPolling(
                           StartStatusPolling(timers, statusPollInterval,
                                              nextTimer, nextJob),
                           logsPollInterval, nextTimer + 1, nextJob)
            /\ statusPollInterval' = nextTimer
            /\ logsPollInterval' = nextTimer + 1
            /\ nextTimer' = nextTimer + 2
            /\ logsSection' = "block"
            /\ urlInput' = <<>>
            /\ submitBtnDisabled' = FALSE
            /\ tasks' = Append(Remove(tasks, i), Task("history", NULL, "na", <<>>))
            /\ jobStatus' = [jobStatus EXCEPT ![nextJob] = "processing"]
            /\ nextJob' = nextJob + 1
            /\ failStreak' = 0
            /\ logTickFailed' = FALSE
            /\ UNCHANGED <<statusSection, resultsSection, errorSection,
                           errorMessage, statusVars, viewVars, submits,
                           polled, loads, settled>>
       ELSE /\ statusSection' = "none"
            /\ ShowError("Error: " \o SubmitErrorText(out))
            /\ submitBtnDisabled' = FALSE
            /\ tasks' = Remove(tasks, i)
            /\ UNCHANGED <<ctlVars, urlInput, resultsSection, logsSection,
                           statusVars, viewVars, serverVars, ghostVars>>

\* The status interval fires: the callback runs up to its fetch (line 95).
StatusTick(t) ==
    /\ t \in timers
    /\ t.kind = "status"
    /\ Len(tasks) < MaxInFlight
    /\ tasks' = Append(tasks, Task("status", t.job, "poll", <<>>))
    /\ UNCHANGED <<ctlVars, formVars, sectionVars, statusVars, viewVars,
                   serverVars, ghostVars>>

\* The status fetch fails, is not 2xx, is not JSON or does not parse
\* (lines 96-106, 127-135).
StatusTickError(i, out) ==
    /\ i \in 1..Len(tasks)
    /\ tasks[i].kind = "status"
    /\ timers' = TimersAfterTickError(timers, statusPollInterval)
    /\ tasks' = Remove(tasks, i)
    /\ failStreak' = Min(failStreak + 1, MaxStreak)
    /\ UNCHANGED <<currentJobId, statusPollInterval, logsPollInterval,
                   nextTimer, formVars, sectionVars, statusVars, viewVars,
                   serverVars, submits, polled, loads, settled, logTickFailed>>

\* The status fetch is answered with the payload {status: st, progress: p,
\* message: m} (lines 108-126); loadResults runs up to its fetch (line 159).
StatusResponse(i, st, p, m) ==
    /\ i \in 1..Len(tasks)
    /\ tasks[i].kind = "status"
    /\ st \in StatusAnswers(tasks[i].job)
    /\ UpdateStatusDisplay(st, p, m)
    /\ failStreak' = 0
    /\ LET j == tasks[i].job IN
       IF IsTerminal(st)
       THEN /\ timers' = StopPolling(timers, statusPollInterval, logsPollInterval)
            /\ statusPollInterval' = NULL
            /\ logsPollInterval' = NULL
            /\ polled' = [polled EXCEPT ![j] = @ \cup {st}]
            /\ IF LoadsResults(st)
               THEN /\ tasks' = Append(Remove(Overtake(tasks, i), i),
                                       Task("results", j, "poll", <<>>))
                    /\ loads' = [loads EXCEPT ![j] = @ + 1]
                    /\ settled' = [settled EXCEPT ![j] = "loading"]
                    /\ UNCHANGED <<errorSection, errorMessage>>
               ELSE /\ tasks' = Remove(Overtake(tasks, i), i)
                    /\ ShowError(AnalysisFailedMsg)
                    /\ UNCHANGED <<loads, settled>>
       ELSE /\ tasks' = Remove(Overtake(tasks, i), i)
            /\ UNCHANGED <<timers, statusPollInterval, logsPollInterval,
                           polled, loads, settled, errorSection, errorMessage>>
    /\ UNCHANGED <<currentJobId, nextTimer, formVars, statusSection,
                   resultsSection, logsSection, viewVars, serverVars, submits,
                   logTickFailed>>

\* What loadResults does with its answer (lines 160-179): "resultsLoaded"
\* (the report is rendered and shown), "resultsLoadError" (an error is
\* shown) or "nothing".
LoadOutcome(out, data) ==
    IF out # "ok" THEN "resultsLoadError"
    ELSE IF HasError(data.error) THEN "resultsLoadError"
    ELSE IF HasResult(data.result)
         THEN (IF RenderThrows(data.result) THEN "resultsLoadError"
               ELSE "resultsLoaded")
    ELSE "nothing"

\* The message loadResults shows when it ends in an error.
LoadErrorMessage(out, data) ==
    IF out # "ok" THEN "Error loading results: " \o LoadErrorText(out)
    ELSE IF HasError(data.error) THEN data.error.text
    ELSE "Error loading results: " \o RenderErrorText(data.result)

\* loadResults after its fetch is answered (lines 160-179).
ResultsResponse(i, out, data) ==
    /\ i \in 1..Len(tasks)
    /\ tasks[i].kind = "results"
    /\ tasks' = Remove(tasks, i)
    /\ LET j == tasks[i].job
           end == LoadOutcome(out, data)
           renders == out = "ok" /\ ~HasError(data.error) /\ HasResult(data.result)
       IN
       /\ settled' = IF tasks[i].origin = "poll"
                     THEN [settled EXCEPT ![j] = end] ELSE settled
       /\ resultsParts' = IF renders
                          THEN DisplayResults(resultsParts, data.result, j)
                          ELSE resultsParts
       /\ resultsView' = IF renders /\ Written(data.result) # {}
                         THEN j ELSE resultsView
       /\ CASE end = "resultsLoadError" ->
                 /\ ShowError(LoadErrorMessage(out, data))
                 /\ UNCHANGED <<statusSection, resultsSection>>
            [] end = "resultsLoaded" ->
                 /\ statusSection' = "none"
                 /\ resultsSection' = "block"
                 /\ UNCHANGED <<errorSection, errorMessage>>
            [] OTHER ->
                 UNCHANGED <<statusSection, resultsSection,
                             errorSection, errorMessage>>
    /\ UNCHANGED <<ctlVars, formVars, logsSection, statusVars, logsContainer,
                   historyTbody, serverVars, submits, polled, loads, failStreak,
                   logTickFailed>>

\* The log interval fires: the callback runs up to its fetch (line 433).
LogsTick(t) ==
    /\ t \in timers
    /\ t.kind = "logs"
    /\ Len(tasks) < MaxInFlight
    /\ tasks' = Append(tasks, Task("logs", t.job, "poll", <<>>))
    /\ UNCHANGED <<ctlVars, formVars, sectionVars, statusVars, viewVars,
                   serverVars, ghostVars>>

\* The log fetch is answered (lines 434-447); on a JSON answer the lines
\* are displayed and the callback goes on to fetch the job's status.
LogsResponse(i, out, logs) ==
    /\ i \in 1..Len(tasks)
    /\ tasks[i].kind = "logs"
    /\ IF LogsOk(out)
       THEN /\ logsContainer' = DisplayLogs(logs)
            /\ tasks' = Append(Remove(tasks, i),
                               Task("logstatus", tasks[i].job, "poll", <<>>))
       ELSE /\ tasks' = Remove(tasks, i)
            /\ UNCHANGED logsContainer
    /\ logTickFailed' = (out # "ok")
    /\ UNCHANGED <<ctlVars, formVars, sectionVars, statusVars, resultsView,
                   resultsParts, historyTbody, serverVars, submits, polled,
                   loads, settled,
                   failStreak>>

\* The log callback's own status fetch is answered (lines 448-458).
LogStatusResponse(i, out, st) ==
    /\ i \in 1..Len(tasks)
    /\ tasks[i].kind = "logstatus"
    /\ st \in StatusAnswers(tasks[i].job)
    /\ IF out = "ok" /\ IsTerminal(st)
       THEN /\ timers' = ClearInterval(timers, logsPollInterval)
            /\ logsPollInterval' = NULL
       ELSE UNCHANGED <<timers, logsPollInterval>>
    /\ tasks' = Remove(tasks, i)
    /\ UNCHANGED <<currentJobId, statusPollInterval, nextTimer, formVars,
                   sectionVars, statusVars, viewVars, serverVars, ghostVars>>

\* The refresh button is clicked: loadHistory up to its fetch (line 296).
RefreshHistory ==
    /\ Len(tasks) < MaxInFlight
    /\ tasks' = Append(tasks, Task("history", NULL, "na", <<>>))
    /\ UNCHANGED <<ctlVars, formVars, sectionVars, statusVars, viewVars,
                   serverVars, ghostVars>>

\* loadHistory after its fetch is answered (lines 297-306).
HistoryResponse(i, out) ==
    /\ i \in 1..Len(tasks)
    /\ tasks[i].kind = "history"
    /\ tasks' = Remove(tasks, i)
    /\ historyTbody' = IF HistoryOk(out) THEN DisplayHistory(HistoryItems)
                       ELSE historyTbody
    /\ UNCHANGED <<ctlVars, formVars, sectionVars, statusVars, resultsView,
                   resultsParts, logsContainer, serverVars, ghostVars>>

\* viewResults, lines 382-384, from the button of a history row.
ViewResults(r) ==
    /\ r \in 1..Len(historyTbody)
    /\ historyTbody[r].view
    /\ Len(tasks) < MaxInFlight
    /\ currentJobId' = historyTbody[r].job_id
    /\ tasks' = Append(tasks, Task("results", historyTbody[r].job_id, "view", <<>>))
    /\ timers' = TimersAfterView(timers, statusPollInterval, logsPollInterval)
    /\ UNCHANGED <<statusPollInterval, logsPollInterval, nextTimer,
                   formVars, sectionVars, statusVars, viewVars, serverVars,
                   ghostVars>>

\* The service finishes a job: its status becomes terminal and stays so.
ServiceFinishes(j, st) ==
    /\ jobStatus[j] = "processing"
    /\ jobStatus' = [jobStatus EXCEPT ![j] = st]
    /\ UNCHANGED <<ctlVars, tasks, formVars, sectionVars, statusVars, viewVars,
                   nextJob, ghostVars>>

\* ------------------------------------------------------- specifications

\* The field holds nothing but whitespace.
IsBlank(v) == \A k \in 1..Len(v) : v[k] \in Whitespace

PostOutcomes == {"neterr", "non2xx", "badjson", "ok"}
TickErrors == {"neterr", "non2xx", "nonjson", "badjson"}
LoadOutcomes == {"neterr", "non2xx", "badjson", "ok"}
HistoryErrors == {"neterr", "non2xx", "badjson"}
Statuses == {"processing", "completed", "failed"}

\* One job, every answer of the service.
Next ==
    \/ \E v \in UrlInputs :
         /\ IsBlank(v) \/ (submits < MaxSubmits /\ nextJob <= MaxJobs)
         /\ HandleFormSubmit(v)
    \/ \E i \in 1..Len(tasks), out \in PostOutcomes : PostResponse(i, out)
    \/ \E t \in timers : StatusTick(t)
    \/ \E i \in 1..Len(tasks), out \in TickErrors : StatusTickError(i, out)
    \/ \E i \in 1..Len(tasks), st \in Statuses, p \in ProgressVals, m \in Messages :
         StatusResponse(i, st, p, m)
    \/ \E i \in 1..Len(tasks), out \in LoadOutcomes, data \in BranchPayloads :
         (out # "ok" => data = NoData) /\ ResultsResponse(i, out, data)
    \/ \E t \in timers : LogsTick(t)
    \/ \E i \in 1..Len(tasks), out \in TickErrors \cup {"ok"}, logs \in LogInputs :
         (out # "ok" => logs = <<>>) /\ LogsResponse(i, out, logs)
    \/ \E i \in 1..Len(tasks), out \in {"neterr", "ok"}, st \in Statuses :
         LogStatusResponse(i, out, st)
    \/ RefreshHistory
    \/ \E i \in 1..Len(tasks), out \in HistoryErrors \cup {"ok"} :
         HistoryResponse(i, out)
    \/ \E r \in 1..Len(historyTbody) : ViewResults(r)
    \/ \E j \in Jobs, st \in Terminal : ServiceFinishes(j, st)

Spec == Init /\ [][Next]_vars

\* Several jobs, the answers that decide the control flow.
ReportData == [error |-> [present |-> FALSE, text |-> ""], result |-> "report"]

NextJobs ==
    \/ \E v \in {<<SP, TAB>>, <<SP, "a", SP>>} :
         /\ IsBlank(v) \/ submits < MaxSubmits
         /\ HandleFormSubmit(v)
    \/ \E i \in 1..Len(tasks), out \in {"non2xx", "ok"} : PostResponse(i, out)
    \/ \E t \in timers : StatusTick(t)
    \/ \E i \in 1..Len(tasks) : StatusTickError(i, "neterr")
    \/ \E i \in 1..Len(tasks), st \in Statuses : StatusResponse(i, st, 60, "")
    \/ \E i \in 1..Len(tasks), out \in {"non2xx", "ok"} :
         ResultsResponse(i, out, IF out = "ok" THEN ReportData ELSE NoData)
    \/ \E t \in timers : LogsTick(t)
    \/ \E i \in 1..Len(tasks), out \in {"nonjson", "ok"} : LogsResponse(i, out, <<>>)
    \/ \E i \in 1..Len(tasks), st \in Statuses : LogStatusResponse(i, "ok", st)
    \/ \E i \in 1..Len(tasks), out \in {"neterr", "ok"} : HistoryResponse(i, out)
    \/ \E r \in 1..Len(historyTbody) : ViewResults(r)
    \/ \E j \in Jobs, st \in Terminal : ServiceFinishes(j, st)

SpecJobs == Init /\ [][NextJobs]_vars

\* What updateStatusDisplay may be given as progress: an absent field reads
\* as 0, and the service does not keep the value within 0..100.
ProgressInputs == {-10, 0, 3, 5, 60, 100, 150}

\* One job that is polled, every log line and every progress value.
NextDisplay ==
    \/ /\ submits < MaxSubmits /\ nextJob <= MaxJobs
       /\ HandleFormSubmit(<<SP, "a", SP>>)
    \/ \E i \in 1..Len(tasks) : PostResponse(i, "ok")
    \/ \E t \in timers : StatusTick(t)
    \/ \E i \in 1..Len(tasks), p \in ProgressInputs :
         StatusResponse(i, "processing", p, "")
    \/ \E t \in timers : LogsTick(t)
    \/ \E i \in 1..Len(tasks), line \in LogLines : LogsResponse(i, "ok", <<line>>)
    \/ \E i \in 1..Len(tasks) : LogStatusResponse(i, "ok", "processing")
    \/ \E i \in 1..Len(tasks) : HistoryResponse(i, "ok")

SpecDisplay == Init /\ [][NextDisplay]_vars

\* One job that is polled to its end and viewed from the history, every
\* answer to the fetch of its results.
NextResults ==
    \/ /\ submits < MaxSubmits /\ nextJob <= MaxJobs
       /\ HandleFormSubmit(<<SP, "a", SP>>)
    \/ \E i \in 1..Len(tasks) : PostResponse(i, "ok")
    \/ \E t \in timers : StatusTick(t)
    \/ \E i \in 1..Len(tasks), st \in Statuses : StatusResponse(i, st, 60, "")
    \/ \E i \in 1..Len(tasks), out \in LoadOutcomes, data \in Payloads :
         (out # "ok" => data = NoData) /\ ResultsResponse(i, out, data)
    \/ \E i \in 1..Len(tasks) : HistoryResponse(i, "ok")
    \/ \E r \in 1..Len(historyTbody) : ViewResults(r)
    \/ \E j \in Jobs : ServiceFinishes(j, "completed")

SpecResults == Init /\ [][NextResults]_vars

\* ---------------------------------------------------------------- claims

PostCount(ts) == Cardinality({k \in 1..Len(ts) : ts[k].kind = "post"})

InFlight(kind) == \E k \in 1..Len(tasks) : tasks[k].kind = kind

StatusTimer(job) == [id |-> statusPollInterval, kind |-> "status", job |-> job]
LogsTimer(job) == [id |-> logsPollInterval, kind |-> "logs", job |-> job]

\* C1: a submission whose input is empty or only whitespace issues no
\* request, shows the validation error and leaves both timer handles and
\* the scheduled timers as they were.
C1_BlankInputRejected ==
    [][\A v \in UrlInputs :
         (IsBlank(v) /\ HandleFormSubmit(v)) =>
            /\ tasks' = tasks
            /\ timers' = timers
            /\ statusPollInterval' = statusPollInterval
            /\ logsPollInterval' = logsPollInterval
            /\ errorSection' = "block"
            /\ errorMessage' = ValidationMsg]_vars

\* C1 witness: whitespace was submitted while a job is polled; the error
\* is shown, no POST is in flight and the pollers are still scheduled.
C1_Witness ==
    /\ urlInput = <<SP, TAB>>
    /\ errorSection = "block"
    /\ errorMessage = ValidationMsg
    /\ ~InFlight("post")
    /\ statusPollInterval # NULL
    /\ StatusTimer(currentJobId) \in timers

\* C2: a submission of a non-blank URL issues exactly one POST, and when the
\* POST succeeds exactly one status timer and one log timer are scheduled,
\* both for the job_id the POST returned, and no further POST is issued.
C2_OnePostOnePollerEach ==
    [][/\ \A v \in UrlInputs :
            (~IsBlank(v) /\ HandleFormSubmit(v)) =>
               /\ Len(tasks') = Len(tasks) + 1
               /\ tasks'[Len(tasks')].kind = "post"
               /\ PostCount(tasks') = 1
       /\ \A i \in 1..Len(tasks) :
            PostResponse(i, "ok") =>
               /\ PostCount(tasks') = 0
               /\ currentJobId' = nextJob
               /\ statusPollInterval' # logsPollInterval'
               /\ timers' = {[id |-> statusPollInterval', kind |-> "status", job |-> nextJob],
                             [id |-> logsPollInterval', kind |-> "logs", job |-> nextJob]}
      ]_vars

\* C2 witness: the second job's POST succeeded while the first job was still
\* polled; only the second job's two timers are scheduled.
C2_Witness ==
    /\ nextJob = 3
    /\ currentJobId = 2
    /\ polled[1] = {}
    /\ timers = {StatusTimer(2), LogsTimer(2)}

\* C3: when the POST fails (network error or non-2xx) no poller is started,
\* the status section is hidden, the submit button is enabled again and the
\* error section shows the failure message.
C3_FailedSubmitRevertsToIdle ==
    [][\A i \in 1..Len(tasks), out \in {"neterr", "non2xx"} :
         PostResponse(i, out) =>
            /\ timers' = timers
            /\ statusPollInterval' = statusPollInterval
            /\ logsPollInterval' = logsPollInterval
            /\ statusSection' = "none"
            /\ submitBtnDisabled' = FALSE
            /\ errorSection' = "block"
            /\ errorMessage' = "Error: " \o SubmitErrorText(out)]_vars

\* C3 witness: a submission was answered with a non-2xx response.
C3_Witness ==
    /\ submits >= 1
    /\ nextJob = 1
    /\ timers = {}
    /\ statusSection = "none"
    /\ ~submitBtnDisabled
    /\ errorSection = "block"
    /\ errorMessage = "Error: " \o SubmitFailedMsg

\* C4: a failed status tick (network error, non-2xx, non-JSON) stops no
\* timer, changes no handle and shows no error, however many ticks failed
\* before it; the status timer stays scheduled, so the next tick fetches.
C4_FailedTickKeepsPolling ==
    [][\A i \in 1..Len(tasks), out \in TickErrors :
         StatusTickError(i, out) =>
            /\ timers' = timers
            /\ statusPollInterval' = statusPollInterval
            /\ logsPollInterval' = logsPollInterval
            /\ errorSection' = errorSection
            /\ errorMessage' = errorMessage
            /\ \A t \in timers : t.kind = "status" => t \in timers']_vars

\* C4 witness: ticks failed MaxStreak times in a row, the status timer is
\* still scheduled and the next tick's fetch is in flight.
C4_Witness ==
    /\ failStreak = MaxStreak
    /\ statusPollInterval # NULL
    /\ StatusTimer(currentJobId) \in timers
    /\ InFlight("status")
    /\ errorSection = "none"

\* C5: the status timer of a job J is stopped only by J's own poller
\* observing a terminal status (or by an explicit cancellation): a status
\* answer for another job leaves J's status timer scheduled.
C5_OtherJobsAnswerStopsNothing ==
    [][\A i \in 1..Len(tasks), st \in Statuses, p \in ProgressVals, m \in Messages :
         StatusResponse(i, st, p, m) =>
            \A t \in timers :
               (t.kind = "status" /\ t.job # tasks[i].job) => t \in timers']_vars

PollLoadInFlight(j) ==
    \E k \in 1..Len(tasks) :
        tasks[k].kind = "results" /\ tasks[k].job = j /\ tasks[k].origin = "poll"

\* C6: the status poller fetches the results of a job at most once, and only
\* after it observed the job completed.
C6_ResultsFetchedOncePerJob ==
    \A j \in Jobs :
        /\ loads[j] <= 1
        /\ (loads[j] > 0 => "completed" \in polled[j])

\* C7: the step in which the status poller observes a terminal status
\* clears both handles and leaves no status timer and no log timer
\* scheduled, so no log tick can fire after it.
C7_TerminalStopsLogTimer ==
    [][\A i \in 1..Len(tasks), st \in Terminal, p \in ProgressVals, m \in Messages :
         StatusResponse(i, st, p, m) =>
            /\ statusPollInterval' = NULL
            /\ logsPollInterval' = NULL
            /\ \A t \in timers' : t.kind \notin {"status", "logs"}]_vars

\* C7 witness: the second job's poller observed a terminal status while a
\* log fetch was in flight; no timer is left.
C7_Witness ==
    /\ polled[2] # {}
    /\ InFlight("logs")
    /\ statusPollInterval = NULL
    /\ logsPollInterval = NULL
    /\ timers = {}

\* C8: when the status poller observes a job failed it shows the fixed
\* failure message, and no results fetch is ever issued for that job.
C8_FailedShowsMessageLoadsNothing ==
    [][/\ \A i \in 1..Len(tasks), p \in ProgressVals, m \in Messages :
            StatusResponse(i, "failed", p, m) =>
               /\ errorSection' = "block"
               /\ errorMessage' = AnalysisFailedMsg
               /\ Len(tasks') = Len(tasks) - 1
       /\ \A j \in Jobs :
            "failed" \in polled'[j] =>
               /\ loads'[j] = 0
               /\ \A k \in 1..Len(tasks') :
                     tasks'[k].kind = "results" => tasks'[k].job # j
      ]_vars

\* C8 witness: the poller observed the job failed; the message is shown and
\* no results were fetched.
C8_Witness ==
    /\ "failed" \in polled[1]
    /\ errorSection = "block"
    /\ errorMessage = AnalysisFailedMsg
    /\ loads[1] = 0
    /\ ~InFlight("results")

\* C9: once the status poller observed a job completed and its results
\* fetch has been answered, the client is in resultsLoaded or in
\* resultsLoadError, whatever the answer was.
C9_CompletedEndsLoadedOrError ==
    \A j \in Jobs :
        ("completed" \in polled[j] /\ ~PollLoadInFlight(j)) =>
            settled[j] \in {"resultsLoaded", "resultsLoadError"}

\* What C10 says of the step in which loadResults gets its answer, with
\* IsError deciding which payloads count as carrying an error.
LoadResultsContract(IsError(_)) ==
    /\ \A i \in 1..Len(tasks), data \in Payloads :
         ResultsResponse(i, "ok", data) =>
            /\ IsError(data.error) =>
                  /\ errorSection' = "block"
                  /\ errorMessage' = data.error.text
                  /\ UNCHANGED <<resultsView, resultsParts, resultsSection,
                                 statusSection>>
            /\ (~IsError(data.error) /\ data.result = "report") =>
                  /\ resultsView' = tasks[i].job
                  /\ resultsParts' = [e \in ViewElements |-> tasks[i].job]
                  /\ resultsSection' = "block"
                  /\ UNCHANGED <<errorSection, errorMessage>>
            /\ (\/ resultsView' # resultsView
                \/ resultsParts' # resultsParts
                \/ resultsSection' # resultsSection) =>
                  ~IsError(data.error)
    /\ \A i \in 1..Len(tasks), out \in {"neterr", "non2xx"} :
         ResultsResponse(i, out, NoData) =>
            /\ errorSection' = "block"
            /\ errorMessage' = "Error loading results: " \o LoadErrorText(out)
            /\ tasks' = Remove(tasks, i)
            /\ UNCHANGED <<resultsView, resultsParts, resultsSection, timers>>

ErrorFieldPresent(e) == e.present
ErrorFieldNonEmpty(e) == e.present /\ e.text # ""

\* C10 as stated: a payload carrying an error field shows exactly that
\* error and renders nothing; a failed fetch shows a load error and is not
\* retried; only a payload without an error field is rendered and shown.
C10_AnyErrorFieldSurfaced == [][LoadResultsContract(ErrorFieldPresent)]_vars

\* C10 amended: the same, for payloads whose error field is not empty; a
\* payload whose error field is empty (or null) counts as carrying none.
C10_NonEmptyErrorSurfaced == [][LoadResultsContract(ErrorFieldNonEmpty)]_vars

\* C10 witness: the results payload of the polled job carried an error; it
\* is shown as it came and nothing was rendered.
C10_Witness ==
    /\ settled[1] = "resultsLoadError"
    /\ errorSection = "block"
    /\ errorMessage = "Job crashed"
    /\ resultsView = NULL
    /\ resultsParts = [e \in ViewElements |-> NULL]
    /\ resultsSection = "none"

\* C11: a log tick whose fetch fails, is not 2xx, is not JSON or does not
\* parse is ignored silently: it shows no error, changes neither the log
\* display nor a timer handle nor a scheduled timer, and issues no further
\* request, so the log timer's next tick fetches as usual.
C11_FailedLogTickIgnored ==
    [][\A i \in 1..Len(tasks), out \in TickErrors :
         LogsResponse(i, out, <<>>) =>
            /\ errorSection' = errorSection
            /\ errorMessage' = errorMessage
            /\ logsContainer' = logsContainer
            /\ statusPollInterval' = statusPollInterval
            /\ logsPollInterval' = logsPollInterval
            /\ timers' = timers
            /\ tasks' = Remove(tasks, i)]_vars

\* C11 witness: a log tick failed after lines had been displayed; the lines
\* are still there, no error is shown, the log timer is still scheduled and
\* its next tick's fetch is in flight.
C11_Witness ==
    /\ logTickFailed
    /\ logsContainer # <<>>
    /\ errorSection = "none"
    /\ logsPollInterval # NULL
    /\ LogsTimer(currentJobId) \in timers
    /\ InFlight("logs")

\* C12: the history refresh after a successful submission is fire and
\* forget.  The step that ends the submission starts both pollers and
\* enables the form without waiting for the refresh, and a refresh that
\* fails changes neither the form, the pollers, the error surface nor the
\* history display.
C12_HistoryRefreshFireAndForget ==
    [][/\ \A i \in 1..Len(tasks) :
            PostResponse(i, "ok") =>
               /\ tasks'[Len(tasks')].kind = "history"
               /\ submitBtnDisabled' = FALSE
               /\ UNCHANGED <<errorSection, errorMessage, statusSection>>
               /\ {t.kind : t \in timers'} = {"status", "logs"}
       /\ \A i \in 1..Len(tasks), out \in HistoryErrors :
            HistoryResponse(i, out) =>
               /\ UNCHANGED <<historyTbody, errorSection, errorMessage>>
               /\ UNCHANGED <<timers, statusPollInterval, logsPollInterval>>
               /\ UNCHANGED <<currentJobId, statusSection, formVars>>
      ]_vars

\* C12 witness: the job was created and is polled, the refresh the
\* submission triggered has been answered, and the history still shows the
\* empty list rendered before the submission: that refresh failed.
C12_Witness ==
    /\ nextJob = 2
    /\ ~InFlight("history")
    /\ historyTbody = DisplayHistory(<<>>)
    /\ timers = {StatusTimer(1), LogsTimer(1)}
    /\ errorSection = "none"
    /\ statusSection = "block"
    /\ ~submitBtnDisabled
    /\ urlInput = <<>>

\* The categories of a log line in the order of their priority, and what
\* makes a line a candidate for each.
Categories == <<"worker", "scraper", "extractor", "error", "success", "plain">>

Matches(cat, line) ==
    CASE cat = "worker" -> "[WORKER]" \in line
      [] cat = "scraper" -> "[SCRAPER]" \in line
      [] cat = "extractor" -> "[EXTRACTOR]" \in line
      [] cat = "error" -> \E mk \in {"x-mark", "ERROR", "Error"} : mk \in line
      [] cat = "success" -> \E mk \in {"check-mark", "completed"} : mk \in line
      [] OTHER -> TRUE

HasComponentTag(line) == \E tag \in {"[WORKER]", "[SCRAPER]", "[EXTRACTOR]"} : tag \in line
HasErrorMarker(line) == Matches("error", line)

\* C13: every displayed log line carries exactly one category, the first in
\* the order worker, scraper, extractor, error, success, plain that the line
\* matches; a line with a component tag and an error marker carries the
\* category of a component tag, not error.
C13_LogLineFirstMatch ==
    \A k \in 1..Len(logsContainer) :
        LET line == logsContainer[k].text
            class == logsContainer[k].class
        IN
        /\ \E n \in 1..Len(Categories) :
              /\ class = Categories[n]
              /\ Matches(class, line)
              /\ \A h \in 1..(n - 1) : ~Matches(Categories[h], line)
        /\ (HasComponentTag(line) /\ HasErrorMarker(line)) =>
              class \in {"worker", "scraper", "extractor"}

\* C13 witness: a displayed line holds a component tag, an error marker and
\* a success marker, and is shown as the component's.
C13_Witness ==
    \E k \in 1..Len(logsContainer) :
        /\ logsContainer[k].text = {"[SCRAPER]", "ERROR", "completed"}
        /\ logsContainer[k].class = "scraper"

\* C14 as stated: displayHistory renders one row per history entry, and a
\* row offers "View Results" exactly when its entry is completed.
C14_OneRowPerEntry ==
    [][\A i \in 1..Len(tasks) :
         HistoryResponse(i, "ok") =>
            /\ Len(historyTbody') = Len(HistoryItems)
            /\ \A r \in 1..Len(historyTbody') :
                  /\ historyTbody'[r].job_id = HistoryItems[r].job_id
                  /\ historyTbody'[r].view <=> (HistoryItems[r].status = "completed")
      ]_vars

\* C14 amended: a history that is not empty is rendered as one row per
\* entry, in order, and a row offers "View Results" exactly when its entry
\* is completed; an empty history is rendered as the single row "No
\* analysis history", which offers nothing.
C14_OneRowPerEntryUnlessEmpty ==
    [][\A i \in 1..Len(tasks) :
         HistoryResponse(i, "ok") =>
            IF Len(HistoryItems) = 0
            THEN /\ Len(historyTbody') = 1
                 /\ historyTbody'[1].status = "No analysis history"
                 /\ ~historyTbody'[1].view
            ELSE /\ Len(historyTbody') = Len(HistoryItems)
                 /\ \A r \in 1..Len(historyTbody') :
                       /\ historyTbody'[r].job_id = HistoryItems[r].job_id
                       /\ historyTbody'[r].status = HistoryItems[r].status
                       /\ historyTbody'[r].view <=>
                             (HistoryItems[r].status = "completed")
      ]_vars

\* C14 witness: the history shows two jobs, the newer failed and without
\* the button, the older completed and with it.
C14_Witness ==
    /\ Len(historyTbody) = 2
    /\ historyTbody[1] = [job_id |-> 2, status |-> "failed", view |-> FALSE]
    /\ historyTbody[2] = [job_id |-> 1, status |-> "completed", view |-> TRUE]

\* The progress the status display shows: the number in "Progress: n%",
\* none (0) while it reads "Processing...".
DisplayedProgress(details) == IF Len(details) = 3 THEN details[2] ELSE 0

\* C15: within one job the status answers are applied in the order their
\* fetches were issued: the answer of a fetch that a later fetch of the job
\* has overtaken is discarded, so it never lowers the displayed progress.
C15_LateStatusNeverLowersProgress ==
    [][\A i \in 1..Len(tasks), st \in Statuses, p \in ProgressVals, m \in Messages :
         (StatusResponse(i, st, p, m) /\ tasks[i].late) =>
            DisplayedProgress(statusDetails') >= DisplayedProgress(statusDetails)
      ]_vars

\* The timer whose callback issued the fetch is no longer scheduled: the
\* fetch was in flight when its poller was cancelled.  (A timer polls the job
\* it was started for, and no job gets two timers of one kind.)
Cancelled(task) ==
    LET poller == IF task.kind = "status" THEN "status" ELSE "logs" IN
    /\ task.kind \in {"status", "logs", "logstatus"}
    /\ ~\E t \in timers : t.kind = poller /\ t.job = task.job

\* C16: cancelling is idempotent, and the answer of a fetch that was in
\* flight when its poller was cancelled is not applied: it changes neither
\* the status display nor the log display, loads no results and shows no
\* error.
C16_CancelledFetchNotApplied ==
    [][/\ \A h \in {statusPollInterval, logsPollInterval, NULL} :
            ClearInterval(ClearInterval(timers, h), h) = ClearInterval(timers, h)
       /\ \A i \in 1..Len(tasks), st \in Statuses, p \in ProgressVals, m \in Messages :
            (StatusResponse(i, st, p, m) /\ Cancelled(tasks[i])) =>
               /\ UNCHANGED <<statusVars, errorSection, errorMessage>>
               /\ \A k \in 1..Len(tasks') : tasks'[k] \in {tasks[n] : n \in 1..Len(tasks)}
       /\ \A i \in 1..Len(tasks), logs \in LogInputs :
            (LogsResponse(i, "ok", logs) /\ Cancelled(tasks[i])) =>
               UNCHANGED logsContainer
      ]_vars

\* C17: the log poller never stops itself and never fetches the job's
\* status: a log timer is unscheduled only by the status poller's handling
\* of a terminal status or by the start of a new poller, and no fetch of
\* the status is issued on behalf of the log poller.
C17_OnlyStatusPollerStopsLogs ==
    [][/\ (\E t \in timers : t.kind = "logs" /\ t \notin timers') =>
            \/ \E i \in 1..Len(tasks), st \in Terminal, p \in ProgressVals,
                  m \in Messages : StatusResponse(i, st, p, m)
            \/ \E i \in 1..Len(tasks) : PostResponse(i, "ok")
       /\ \A k \in 1..Len(tasks') : tasks'[k].kind # "logstatus"
      ]_vars

\* The handle the code keeps for the timers of a kind.
HandleOf(kind) == IF kind = "status" THEN statusPollInterval ELSE logsPollInterval

\* C18: at any time at most one status timer and at most one log timer are
\* scheduled, every scheduled timer is the one its kind's handle refers to,
\* and a handle is null exactly when no timer of its kind is scheduled (so
\* the start of a poller leaves no earlier timer of its kind behind).
C18_OneTimerPerKindUnderItsHandle ==
    /\ \A t \in timers : t.kind \in {"status", "logs"} /\ t.id = HandleOf(t.kind)
    /\ \A t1, t2 \in timers : t1.kind = t2.kind => t1 = t2
    /\ \A kind \in {"status", "logs"} :
          (HandleOf(kind) = NULL) <=> ~\E t \in timers : t.kind = kind

\* C18 witness: the second job's pollers replaced the first job's while a
\* status fetch of the first job was still in flight; only the second job's
\* timers are scheduled, under the two handles.
C18_Witness ==
    /\ nextJob = 3
    /\ \E k \in 1..Len(tasks) : tasks[k].kind = "status" /\ tasks[k].job = 1
    /\ timers = {StatusTimer(2), LogsTimer(2)}
    /\ statusPollInterval # NULL
    /\ logsPollInterval # NULL

\* C19: the status poller issues its first fetch at once when it is
\* started, before any interval has elapsed: the step that starts the
\* poller for a job leaves a status fetch for that job in flight.
C19_FirstStatusFetchAtStart ==
    [][\A i \in 1..Len(tasks) :
         PostResponse(i, "ok") =>
            \E k \in 1..Len(tasks') :
               tasks'[k].kind = "status" /\ tasks'[k].job = nextJob]_vars

\* C20: whatever integer progress a status payload carries, below 0 and
\* above 100 included, the width of the progress bar and the number in the
\* progress text lie within 0..100.
C20_DisplayedProgressClamped ==
    /\ progressFill \in 0..100
    /\ Len(statusDetails) = 3 => statusDetails[2] \in 0..100

\* C22: viewResults(jobId), from a history row in any state, issues exactly
\* one results fetch, for jobId, and leaves both timer handles and the
\* scheduled timers as they were: it starts and stops no poller.
C22_ViewResultsOnlyLoads ==
    [][\A r \in 1..Len(historyTbody) :
         ViewResults(r) =>
            /\ Len(tasks') = Len(tasks) + 1
            /\ SubSeq(tasks', 1, Len(tasks)) = tasks
            /\ tasks'[Len(tasks')].kind = "results"
            /\ tasks'[Len(tasks')].job = historyTbody[r].job_id
            /\ UNCHANGED <<statusPollInterval, logsPollInterval, timers>>]_vars

\* C22 witness: the first job's results are being fetched from its history
\* row while the second job is polled; the second job's timers are
\* scheduled under the two handles.
C22_Witness ==
    /\ \E k \in 1..Len(tasks) :
          tasks[k].kind = "results" /\ tasks[k].origin = "view" /\ tasks[k].job = 1
    /\ currentJobId = 1
    /\ statusPollInterval # NULL
    /\ logsPollInterval # NULL
    /\ timers = {StatusTimer(2), LogsTimer(2)}

\* The status poller of job j can still observe it: its timer is scheduled
\* or one of its status fetches is in flight.
StatusPollerAlive(j) ==
    \/ \E t \in timers : t.kind = "status" /\ t.job = j
    \/ \E k \in 1..Len(tasks) : tasks[k].kind = "status" /\ tasks[k].job = j

\* C21: the most recently submitted job is eventually observed terminal by
\* the client, also when it was submitted while a fetch of an earlier job
\* was in flight.  Only the job's own status poller observes it, so until
\* its terminal handling has run that poller is alive; a state where it is
\* not is one from which the job is never observed, whatever the service
\* answers afterwards.
C21_LatestJobStaysObservable ==
    nextJob > 1 =>
        LET latest == nextJob - 1 IN
        polled[latest] # {} \/ StatusPollerAlive(latest)

====
